---- MODULE Spec2Model ----
(***************************************************************************)
(* Model of the trading engine of src/main.py: the symbol router, the      *)
(* signal generator, the risk sizer, the decision cycle (_trade_once),     *)
(* the background loop (Engine._loop) and the webhook commands, as they    *)
(* run on one asyncio event loop.                                          *)
(*                                                                         *)
(* Numbers.  Floats are modelled by exact integers:                        *)
(*   - a quantity is counted in millionths (round(qty, 6), line 338);      *)
(*   - risk_percent is counted in hundredths of a percent;                 *)
(*   - an ATR is counted in units of 1e-8, the floor of line 333;          *)
(*   - an equity is counted in units of 1e-10, so that                     *)
(*       eq * (risk_percent/100) / atr * 10^6 = eq * risk_bp / atr         *)
(*     in the model's units, within TLC's 32-bit integers.                 *)
(***************************************************************************)
EXTENDS Integers, Sequences, FiniteSets, TLC

\* ------------------------------------------------------------------ bounds

\* Most loop tasks alive together; Engine.start creates one per call while
\* running is false, so the code itself has no bound.
MaxTasks == 2

\* ------------------------------------------------------- program constants

\* generate_signal: len(df) < 25 returns ''.
MinBars == 25
\* generate_signal: RSI filters.
RsiOverbought == 70
RsiOversold == 30
\* _size_from_risk: max(float(last["atr"]), 1e-8), in units of 1e-8.
AtrFloor == 1
\* _size_from_risk: max(1.0, round(qty, 6)), in millionths.
MinQty == 1000000
\* Engine.__init__: RISK_PERCENT default 0.5, in hundredths of a percent.
risk_percent_bp == 50
\* loss.replace(0, np.nan): an RSI that is not a number.
NaN == 255

\* ------------------------------------------------------------------ symbols

\* A symbol is the sequence of its tokens; "/" and "_" are the separators
\* the adapters look for.
BTCUSD == <<"BTC", "/", "USD">>
EURUSD == <<"EUR", "_", "USD">>
XYZ == <<"XYZ">>

\* Engine.symbols, from TRADE_SYMBOLS: a crypto symbol, then a symbol no
\* adapter claims.
symbols == <<BTCUSD, XYZ>>

\* str.upper() on a token.
Upper(tok) ==
    CASE tok = "btc" -> "BTC"
      [] tok = "eth" -> "ETH"
      [] tok = "usd" -> "USD"
      [] tok = "eur" -> "EUR"
      [] tok = "xyz" -> "XYZ"
      [] OTHER -> tok

\* `tok in symbol`
Contains(sym, tok) == \E i \in 1..Len(sym) : sym[i] = tok

\* symbol.split(sep)[0]: the tokens before the first separator.
RECURSIVE SplitHead(_, _)
SplitHead(sym, sep) ==
    IF sym = <<>> \/ Head(sym) = sep THEN <<>>
    ELSE <<Head(sym)>> \o SplitHead(Tail(sym), sep)

CryptoBases == {"BTC", "ETH", "SOL", "LTC", "BCH", "DOGE"}

\* AlpacaBroker.instrument_ok
alpaca_instrument_ok(sym) ==
    /\ Contains(sym, "/")
    /\ LET head == SplitHead(sym, "/")
       IN  Len(head) = 1 /\ Upper(head[1]) \in CryptoBases

\* OandaBroker.instrument_ok
oanda_instrument_ok(sym) == Contains(sym, "_")

\* Engine._broker_for: the crypto adapter is asked first.
broker_for(sym) ==
    IF alpaca_instrument_ok(sym) THEN "alpaca"
    ELSE IF oanda_instrument_ok(sym) THEN "oanda"
    ELSE "none"

\* The configured symbols some adapter claims.
Routed == {symbols[i] : i \in {j \in 1..Len(symbols) : broker_for(symbols[j]) # "none"}}

\* ------------------------------------------------------------ signal, size

\* Float comparisons: every comparison with NaN is false.
Lt(a, b) == a # NaN /\ b # NaN /\ a < b
Le(a, b) == a # NaN /\ b # NaN /\ a <= b

\* A generate_signal that asks for no minimum of rows.
generate_signal_nolen(n, prev, last) ==
    LET bull_cross == Le(prev.ema_fast, prev.ema_slow) /\ Lt(last.ema_slow, last.ema_fast)
        bear_cross == Le(prev.ema_slow, prev.ema_fast) /\ Lt(last.ema_fast, last.ema_slow)
    IN  IF bull_cross /\ Lt(last.rsi, RsiOverbought) THEN "buy"
        ELSE IF bear_cross /\ Lt(RsiOversold, last.rsi) THEN "sell"
        ELSE ""

\* A generate_signal whose RSI filter lets the thresholds themselves through.
generate_signal_inclusive(n, prev, last) ==
    IF n < MinBars THEN ""
    ELSE LET bull_cross == Le(prev.ema_fast, prev.ema_slow) /\ Lt(last.ema_slow, last.ema_fast)
             bear_cross == Le(prev.ema_slow, prev.ema_fast) /\ Lt(last.ema_fast, last.ema_slow)
         IN  IF bull_cross /\ Le(last.rsi, RsiOverbought) THEN "buy"
             ELSE IF bear_cross /\ Le(RsiOversold, last.rsi) THEN "sell"
             ELSE ""

\* generate_signal on a frame of n rows whose last two rows are prev, last.
generate_signal(n, prev, last) ==
    IF n < MinBars THEN ""
    ELSE LET bull_cross == Le(prev.ema_fast, prev.ema_slow) /\ Lt(last.ema_slow, last.ema_fast)
             bear_cross == Le(prev.ema_slow, prev.ema_fast) /\ Lt(last.ema_fast, last.ema_slow)
         IN  IF bull_cross /\ Lt(last.rsi, RsiOverbought) THEN "buy"
             ELSE IF bear_cross /\ Lt(RsiOversold, last.rsi) THEN "sell"
             ELSE ""

Max(a, b) == IF a >= b THEN a ELSE b

\* round(): num/den (num >= 0, den > 0) to the nearest integer, halves to even.
RoundHalfEven(num, den) ==
    LET q == num \div den
        r == num % den
    IN  IF 2 * r < den THEN q
        ELSE IF 2 * r > den THEN q + 1
        ELSE IF q % 2 = 0 THEN q ELSE q + 1

\* Engine._size_from_risk, given the equity _equity returned and the last ATR.
size_from_risk(eq, atr_last) ==
    LET atr == Max(atr_last, AtrFloor)
        risk_amt == eq * risk_percent_bp
    IN  Max(MinQty, RoundHalfEven(risk_amt, atr))

\* ------------------------------------------------------------ environment

\* What the brokers answer to the calls of one decision cycle.
CandleReplies == {"raise", "empty", "ok"}
\* Rows in a non-empty candle reply (limit 300): short of MinBars, or not.
BarCounts == {24, 25}
PositionsReplies == {"raise", "ok"}
\* Account equities, in the model's equity unit.
EquityValues == {0, 60000}
AccountReplies ==
    {[ok |-> FALSE, equity |-> 0]} \cup {[ok |-> TRUE, equity |-> q] : q \in EquityValues}
OrderReplies == {"raise", "rejected", "filled"}
EnvReplies ==
    [candles : CandleReplies, n : BarCounts, positions : PositionsReplies,
     account : AccountReplies, order : OrderReplies]

\* Indicator rows compute_indicators can produce for the last candles.
EmaFastValues == {1, 3}
EmaSlowValues == {2}
RsiValues == {50}
AtrValues == {0}
PrevRows == [ema_fast : EmaFastValues, ema_slow : EmaSlowValues]
LastRows == [ema_fast : EmaFastValues, ema_slow : EmaSlowValues,
             rsi : RsiValues, atr : AtrValues]

Sides == {"flat", "long", "short"}
\* MAX_POSITIONS values of the configuration.
MaxPositionsValues == {1, 2}

\* -------------------------------------------------------------------- state

VARIABLES
    enable_auto,    \* Engine.enable_auto
    running,        \* Engine.running
    max_positions,  \* Engine.max_positions
    tasks,          \* the _loop tasks Engine.start created: pc, idx, results
    cpu,            \* which coroutine the event loop is running
    wh,             \* the webhook handler's fallback scan: pc, idx, results
    reply,          \* what Engine.start / Engine.stop just returned, if it just did
    positions,      \* the brokers' open position per routed symbol
    market,         \* per routed symbol, the last two indicator rows
    emitted,        \* per routed symbol: a signal went out on its last candle
    cyc,            \* the decision cycle that just ran (history)
    probe           \* a call of a pure function: its arguments and its result

vars == <<enable_auto, running, max_positions, tasks, cpu, wh, reply,
          positions, market, emitted, cyc, probe>>

Idle == [kind |-> "idle", t |-> 0]
LoopTask(t) == [kind |-> "loop", t |-> t]
Webhook == [kind |-> "wh", t |-> 0]

NoTask == [pc |-> "none", idx |-> 0, res |-> <<>>]
NoScan == [pc |-> "idle", text |-> <<>>, idx |-> 0, res |-> <<>>]

NoCycle ==
    [sym |-> <<>>, src |-> "none", result |-> "none", calls |-> {}, failed |-> {},
     sig |-> "",
     held |-> "flat", npos |-> 0, eq |-> 0, qty |-> 0,
     ordered |-> FALSE, closed |-> FALSE, refire |-> FALSE]

NoProbe == [fn |-> "none"]

\* The state after `ENGINE = Engine()`: no task, the brokers flat.
Init ==
    /\ enable_auto \in BOOLEAN
    /\ running = FALSE
    /\ max_positions \in MaxPositionsValues
    /\ tasks = [t \in 1..MaxTasks |-> NoTask]
    /\ cpu = Idle
    /\ wh = NoScan
    /\ reply = "none"
    /\ positions = [s \in Routed |-> "flat"]
    /\ market \in [Routed -> [prev : PrevRows, last : LastRows]]
    /\ emitted = [s \in Routed |-> FALSE]
    /\ cyc = NoCycle
    /\ probe = NoProbe

\* ----------------------------------------------------------- decision cycle

\* len(br.positions()): the open positions at the broker of sym.
OpenPositions(br) ==
    Cardinality({s \in Routed : broker_for(s) = br /\ positions[s] # "flat"})

\* Engine._equity: the account's equity, 0.0 when account() raises.
equity(acct) == IF acct.ok THEN acct.equity ELSE 0

\* _trade_once, lines 354-359: the open-position limit stops the cycle only
\* when positions() answered; an exception is printed and the cycle goes on.
MaxPositionsReached(e, br) ==
    e.positions = "ok" /\ OpenPositions(br) >= max_positions

\* Engine._trade_once(sym) under the replies e, with the caller's
\* `except Exception` (lines 374-375, 504-505) folded in as result "error".
trade_once(sym, src, e) ==
    LET br == broker_for(sym)
        base == [NoCycle EXCEPT !.sym = sym, !.src = src]
    IN  IF br = "none" THEN [base EXCEPT !.result = "nobroker"]
        ELSE
        LET m == market[sym]
            sig == generate_signal(e.n, m.prev, m.last)
            seen == [base EXCEPT !.held = positions[sym], !.npos = OpenPositions(br),
                                 !.calls = {"fetch_candles"}]
            eq == equity(e.account)
        IN  IF e.candles = "raise"
                THEN [seen EXCEPT !.result = "error", !.failed = {"fetch_candles"}]
            ELSE IF e.candles = "empty" THEN [seen EXCEPT !.result = "nocandles"]
            ELSE IF sig = "" THEN [seen EXCEPT !.result = "nosignal"]
            ELSE IF MaxPositionsReached(e, br)
                THEN [seen EXCEPT !.result = "maxpos", !.sig = sig,
                                  !.calls = {"fetch_candles", "positions"},
                                  !.refire = emitted[sym]]
            ELSE [seen EXCEPT
                    !.result = IF e.order = "raise" THEN "error" ELSE "order",
                    !.calls = {"fetch_candles", "positions", "account", "market_order"},
                    !.failed = (IF e.positions = "raise" THEN {"positions"} ELSE {})
                               \cup (IF e.account.ok THEN {} ELSE {"account"})
                               \cup (IF e.order = "raise" THEN {"market_order"} ELSE {}),
                    !.sig = sig,
                    !.refire = emitted[sym],
                    !.eq = eq,
                    !.qty = size_from_risk(eq, m.last.atr),
                    !.ordered = TRUE]

\* The replies that differ for a cycle on sym: a call the cycle does not make
\* has no reply to choose, and is given the first one.
Replies(sym) ==
    LET br == broker_for(sym)
        none == [candles |-> "raise", n |-> 24, positions |-> "raise",
                 account |-> [ok |-> FALSE, equity |-> 0], order |-> "raise"]
    IN  IF br = "none" THEN {none}
        ELSE {e \in EnvReplies :
                LET read == e.candles = "ok"
                    sig == generate_signal(e.n, market[sym].prev, market[sym].last)
                    sized == read /\ sig # "" /\ ~MaxPositionsReached(e, br)
                IN  /\ read \/ e.n = none.n
                    /\ (read /\ sig # "") \/ e.positions = none.positions
                    /\ sized \/ (e.account = none.account /\ e.order = none.order)}

\* The broker's position on a symbol after a market order of one cycle: a
\* filled order opens, adds to, reduces, closes or reverses the position.
AfterOrder(held, c, e) ==
    IF ~c.ordered \/ e.order # "filled" THEN {held}
    ELSE LET side == IF c.sig = "buy" THEN "long" ELSE "short"
         IN  IF held = "flat" \/ held = side THEN {side}
             ELSE {held, "flat", side}

\* The state a decision cycle leaves behind.
CycleEffect(sym, c, e) ==
    /\ cyc' = c
    /\ IF sym \in Routed
          THEN /\ \E h \in AfterOrder(positions[sym], c, e) :
                     positions' = [positions EXCEPT ![sym] = h]
               /\ emitted' = [emitted EXCEPT ![sym] = @ \/ c.sig # ""]
          ELSE UNCHANGED <<positions, emitted>>

\* ---------------------------------------------------------------- the loop

\* A coroutine takes a step when the event loop runs it already or is free.
CanRun(who) == cpu = who \/ cpu = Idle

\* A loop that never tests the flag.
WhileCond_always == TRUE

\* `while self.enable_auto` (line 368).
WhileCond == enable_auto

\* A loop that awaits inside the `for`, and so lets other coroutines in.
CpuAfterCycle_yield(who) == Idle

\* Who holds the event loop after one symbol of the `for` (lines 370-375):
\* _trade_once is a plain call, the body has no await, the task keeps it.
CpuAfterCycle(who) == who

\* A loop without the `finally`: running is left as it was.
RunningAfterExit_stale == running

\* `finally: self.running = False` (line 380).
RunningAfterExit == FALSE

Live == {t \in 1..MaxTasks : tasks[t].pc # "none"}

\* The entry a decision cycle adds to `results`: the symbol and what came of it.
Result(c) == [symbol |-> c.sym, result |-> c.result]

\* A `for` that stops at the first symbol that fails.
NextIdx_abort(idx, c) ==
    IF c.result \in {"error", "nobroker", "nocandles"} THEN Len(symbols) + 1 ELSE idx + 1

\* `for sym in self.symbols` with its try/except (lines 370-375, 501-505):
\* the next symbol follows whatever the cycle came to.
NextIdx(idx, c) == idx + 1

\* Engine._loop from its start, or from the end of asyncio.sleep, up to the
\* while test: the task begins a tick, or leaves the loop.
LoopEnter(t) ==
    /\ tasks[t].pc \in {"created", "sleeping"}
    /\ cpu = Idle
    /\ IF WhileCond
          THEN /\ tasks' = [tasks EXCEPT ![t] = [pc |-> "tick", idx |-> 1, res |-> <<>>]]
               /\ cpu' = LoopTask(t)
               /\ running' = (IF tasks[t].pc = "created" THEN TRUE ELSE running)
          ELSE /\ tasks' = [tasks EXCEPT ![t] = NoTask]
               /\ cpu' = Idle
               /\ running' = RunningAfterExit
    /\ reply' = "none"
    /\ UNCHANGED <<enable_auto, max_positions, wh, positions, market,
                   emitted, cyc, probe>>

\* One pass of `for sym in self.symbols`: _trade_once and results.append.
LoopTrade(t) ==
    /\ tasks[t].pc = "tick"
    /\ tasks[t].idx <= Len(symbols)
    /\ CanRun(LoopTask(t))
    /\ \E e \in Replies(symbols[tasks[t].idx]) :
          LET sym == symbols[tasks[t].idx]
              c == trade_once(sym, "loop", e)
          IN  /\ CycleEffect(sym, c, e)
              /\ tasks' = [tasks EXCEPT ![t].idx = NextIdx(@, c),
                                        ![t].res = Append(@, Result(c))]
    /\ cpu' = CpuAfterCycle(LoopTask(t))
    /\ reply' = "none"
    /\ UNCHANGED <<enable_auto, running, max_positions, wh, market, probe>>

\* print("cycle", ...) and `await asyncio.sleep(...)`: the tick is over.
LoopSleep(t) ==
    /\ tasks[t].pc = "tick"
    /\ tasks[t].idx > Len(symbols)
    /\ CanRun(LoopTask(t))
    /\ tasks' = [tasks EXCEPT ![t] = [pc |-> "sleeping", idx |-> 0, res |-> <<>>]]
    /\ cpu' = Idle
    /\ cyc' = NoCycle
    /\ reply' = "none"
    /\ UNCHANGED <<enable_auto, running, max_positions, wh, positions,
                   market, emitted, probe>>

\* ------------------------------------------------------------- the webhook

\* Engine.start, from the commands start and run.
Start ==
    /\ cpu = Idle
    /\ IF running
          THEN /\ reply' = "running"
               /\ UNCHANGED <<enable_auto, tasks>>
          ELSE /\ Live # 1..MaxTasks
               /\ LET t == CHOOSE u \in 1..MaxTasks :
                               /\ tasks[u].pc = "none"
                               /\ \A v \in 1..(u - 1) : tasks[v].pc # "none"
                  IN  tasks' = [tasks EXCEPT ![t] = [pc |-> "created", idx |-> 0,
                                                     res |-> <<>>]]
               /\ enable_auto' = TRUE
               /\ reply' = "started"
    /\ UNCHANGED <<running, max_positions, cpu, wh, positions, market, emitted, cyc, probe>>

\* Engine.stop, from the commands stop and pause.
Stop ==
    /\ cpu = Idle
    /\ enable_auto' = FALSE
    /\ reply' = "stopping"
    /\ UNCHANGED <<running, max_positions, tasks, cpu, wh, positions, market,
                   emitted, cyc, probe>>

\* The brokers of the configured symbols (the command `close`).
Brokers == {broker_for(s) : s \in Routed}

\* AlpacaBroker.close_all / OandaBroker.close_all: the positions left when
\* the broker closes `target` (a symbol, or "all"), or answers an error.
close_all(br, target, ok) ==
    [s \in Routed |->
        IF ok /\ broker_for(s) = br /\ (target = "all" \/ target = s)
        THEN "flat" ELSE positions[s]]

\* The command `close <symbol>`: parts[1].upper(), its broker, close_all.
CloseSymbol(sym) ==
    /\ cpu = Idle
    /\ broker_for(sym) # "none"
    /\ \E ok \in BOOLEAN : positions' = close_all(broker_for(sym), sym, ok)
    /\ reply' = "none"
    /\ UNCHANGED <<enable_auto, running, max_positions, tasks, cpu, wh, market, emitted, cyc, probe>>

\* The command `close`: close_all(None) at every broker of the symbols.
RECURSIVE CloseEach(_, _, _)
CloseEach(brs, pos, oks) ==
    IF brs = {} THEN pos
    ELSE LET br == CHOOSE b \in brs : TRUE
         IN  CloseEach(brs \ {br},
                       [s \in Routed |-> IF br \in oks /\ broker_for(s) = br
                                         THEN "flat" ELSE pos[s]],
                       oks)

CloseAll ==
    /\ cpu = Idle
    /\ \E oks \in SUBSET Brokers : positions' = CloseEach(Brokers, positions, oks)
    /\ reply' = "none"
    /\ UNCHANGED <<enable_auto, running, max_positions, tasks, cpu, wh, market, emitted, cyc, probe>>

\* The message texts of the model, lower-cased and split into words: a scan
\* request, a help request and a manual order.
ScanText == <<"scan">>
HelpText == <<"help">>
BuyText == <<"buy", "btc/usd", "2">>

\* The `if` chain of the webhook (lines 441-499): the intent of a text.
Intent(text) ==
    LET one(words) == Len(text) = 1 /\ text[1] \in words
    IN  IF one({"account", "acc"}) THEN "account"
        ELSE IF one({"positions", "pos"}) THEN "positions"
        ELSE IF one({"start", "run"}) THEN "start"
        ELSE IF one({"stop", "pause"}) THEN "stop"
        ELSE IF one({"status", "config"}) THEN "status"
        ELSE IF text # <<>> /\ text[1] = "close" THEN "close"
        ELSE "scan"

\* The fallback of the webhook (lines 499-506): any other text scans the
\* symbols once, whatever enable_auto is.
Fallback(text) ==
    /\ cpu = Idle
    /\ wh.pc = "idle"
    /\ Intent(text) = "scan"
    /\ wh' = [pc |-> "scan", text |-> text, idx |-> 1, res |-> <<>>]
    /\ cpu' = Webhook
    /\ reply' = "none"
    /\ UNCHANGED <<enable_auto, running, max_positions, tasks, positions, market,
                   emitted, cyc, probe>>

ScanBegin == Fallback(ScanText)

\* A message that asks for help or for a manual order.
ManualCommand == \E text \in {HelpText, BuyText} : Fallback(text)

ScanTrade ==
    /\ wh.pc = "scan"
    /\ wh.idx <= Len(symbols)
    /\ CanRun(Webhook)
    /\ \E e \in Replies(symbols[wh.idx]) :
          LET sym == symbols[wh.idx]
              c == trade_once(sym, "webhook", e)
          IN  /\ CycleEffect(sym, c, e)
              /\ wh' = [wh EXCEPT !.idx = NextIdx(@, c), !.res = Append(@, Result(c))]
    /\ cpu' = CpuAfterCycle(Webhook)
    /\ reply' = "none"
    /\ UNCHANGED <<enable_auto, running, max_positions, tasks, market, probe>>

ScanReturn ==
    /\ wh.pc = "scan"
    /\ wh.idx > Len(symbols)
    /\ CanRun(Webhook)
    /\ wh' = NoScan
    /\ cpu' = Idle
    /\ cyc' = NoCycle
    /\ reply' = "none"
    /\ UNCHANGED <<enable_auto, running, max_positions, tasks, positions,
                   market, emitted, probe>>

\* ------------------------------------------------------------- the market

\* A candle closes on a symbol: the last row becomes the previous one.
NewCandle(sym) ==
    /\ \E row \in LastRows :
          market' = [market EXCEPT ![sym] =
                        [prev |-> [ema_fast |-> @.last.ema_fast,
                                   ema_slow |-> @.last.ema_slow],
                         last |-> row]]
    /\ emitted' = [emitted EXCEPT ![sym] = FALSE]
    /\ reply' = "none"
    /\ UNCHANGED <<enable_auto, running, max_positions, tasks, cpu, wh, positions, cyc, probe>>

\* --------------------------------------------------------- specifications

Next ==
    \/ \E t \in 1..MaxTasks : LoopEnter(t)
    \/ \E t \in 1..MaxTasks : LoopTrade(t)
    \/ \E t \in 1..MaxTasks : LoopSleep(t)
    \/ Start
    \/ Stop
    \/ \E sym \in Routed : CloseSymbol(sym)
    \/ CloseAll
    \/ ScanBegin
    \/ ScanTrade
    \/ ScanReturn
    \/ \E sym \in Routed : NewCandle(sym)

Spec == Init /\ [][Next]_vars

\* The event loop runs what is ready (FIFO): a task whose sleep is over, or
\* that was just created, is run in the end, and a coroutine that has the
\* event loop goes on to its next await.
FairSpec ==
    /\ Spec
    /\ \A t \in 1..MaxTasks :
          /\ SF_vars(LoopEnter(t))
          /\ WF_vars(LoopTrade(t))
          /\ WF_vars(LoopSleep(t))
    /\ WF_vars(ScanTrade)
    /\ WF_vars(ScanReturn)

\* The webhook alone, the scheduler never started: messages that ask for help
\* or for a manual order, and the scan they set off.
CmdNext ==
    \/ ManualCommand
    \/ ScanTrade
    \/ ScanReturn
    \/ \E sym \in Routed : NewCandle(sym)

CmdSpec == Init /\ [][CmdNext]_vars

\* ------------------------------------------------------ the pure functions

\* The engine of a specification that only calls a pure function: at rest.
AtRest ==
    /\ enable_auto = FALSE
    /\ running = FALSE
    /\ max_positions = 1
    /\ tasks = [t \in 1..MaxTasks |-> NoTask]
    /\ cpu = Idle
    /\ wh = NoScan
    /\ reply = "none"
    /\ positions = [s \in Routed |-> "flat"]
    /\ emitted = [s \in Routed |-> FALSE]
    /\ cyc = NoCycle

\* Symbols as _broker_for can be handed them: up to MaxSymLen tokens.
MaxSymLen == 3
Tokens == {"BTC", "btc", "EUR", "USD", "XYZ", "/", "_"}
SymbolInputs == UNION {[1..k -> Tokens] : k \in 1..MaxSymLen}

RouteInit ==
    /\ AtRest
    /\ market \in [Routed -> [prev : PrevRows, last : LastRows]]
    /\ probe \in [fn : {"_broker_for"}, symbol : SymbolInputs, done : {FALSE},
                   broker : {""}]

\* Engine._broker_for(symbol).
Route ==
    /\ probe.fn = "_broker_for"
    /\ ~probe.done
    /\ probe' = [probe EXCEPT !.done = TRUE, !.broker = broker_for(probe.symbol)]
    /\ UNCHANGED <<enable_auto, running, max_positions, tasks, cpu, wh, reply,
                   positions, market, emitted, cyc>>

RouteSpec == RouteInit /\ [][Route]_vars

\* Frames as generate_signal can be handed them: up to MaxBars rows, the last
\* two with crossing, touching and undefined indicator values and an RSI on
\* either side of the thresholds.
MaxBars == 26
EmaInputs == {1, 2, 3, NaN}
RsiInputs == {NaN, 29, 30, 31, 69, 70, 71}
PrevInputs == [ema_fast : EmaInputs, ema_slow : EmaInputs]
LastInputs == [ema_fast : EmaInputs, ema_slow : EmaInputs, rsi : RsiInputs,
               atr : AtrValues]

SignalInit ==
    /\ AtRest
    /\ \E prev \in PrevInputs, last \in LastInputs :
          market = [s \in Routed |-> [prev |-> prev, last |-> last]]
    /\ probe \in [fn : {"generate_signal"}, symbol : Routed, n : 0..MaxBars,
                   done : {FALSE}, sig : {""}, cycle : {NoCycle}]

\* The brokers' replies to a cycle on a frame of n rows in which every call
\* is answered.
Answered(n) ==
    [candles |-> IF n = 0 THEN "empty" ELSE "ok", n |-> n, positions |-> "ok",
     account |-> [ok |-> TRUE, equity |-> 60000], order |-> "filled"]

\* generate_signal(df) on the frame of the symbol, and the decision cycle
\* _trade_once runs on that frame.
Generate ==
    /\ probe.fn = "generate_signal"
    /\ ~probe.done
    /\ LET m == market[probe.symbol]
       IN  probe' = [probe EXCEPT
                        !.done = TRUE,
                        !.sig = generate_signal(probe.n, m.prev, m.last),
                        !.cycle = trade_once(probe.symbol, "probe", Answered(probe.n))]
    /\ UNCHANGED <<enable_auto, running, max_positions, tasks, cpu, wh, reply,
                   positions, market, emitted, cyc>>

SignalSpec == SignalInit /\ [][Generate]_vars

\* ------------------------------------------------------------------ claims

\* The quantity of the maximum position cap in the sizer's contract: 2 units
\* (in millionths), the cap of the contract's sizing scenario.
max_position_cap == 2 * MinQty

SameSide(c) ==
    \/ c.held = "long" /\ c.sig = "buy"
    \/ c.held = "short" /\ c.sig = "sell"

OppositeSide(c) ==
    \/ c.held = "long" /\ c.sig = "sell"
    \/ c.held = "short" /\ c.sig = "buy"

Ticking == {t \in 1..MaxTasks : tasks[t].pc = "tick"}

\* C1: a decision cycle whose signal has the direction of the position the
\* broker already holds on the symbol issues no market order.
C1_NoPyramiding == ~(cyc.ordered /\ SameSide(cyc))

\* C2 as stated: no decision cycle over the configured symbols, of the loop
\* or of the webhook, issues a market order or a close while enable_auto is
\* false.
C2_NoMutationWhileDisabled == (cyc.ordered \/ cyc.closed) => enable_auto

\* C2 amended: a tick of the loop is in progress only while enable_auto is
\* true, and a decision cycle of the loop issues a market order or a close
\* only while enable_auto is true.
C2_LoopTicksOnlyWhileEnabled ==
    /\ Ticking # {} => enable_auto
    /\ (cyc.src = "loop" /\ (cyc.ordered \/ cyc.closed)) => enable_auto

\* A decision cycle of the loop has issued a market order.
C2_Witness == cyc.src = "loop" /\ cyc.ordered /\ Ticking # {}

\* C3: at most one tick (of a loop task or of the webhook scan) is in
\* progress at any time: no tick begins before the one in progress has
\* finished all its symbols.
C3_TicksSequential ==
    Cardinality(Ticking) + (IF wh.pc = "scan" THEN 1 ELSE 0) <= 1

\* A tick is past its first symbol while a second loop task waits.
C3_Witness ==
    \E t, u \in 1..MaxTasks :
        /\ tasks[t].pc = "tick" /\ tasks[t].idx > 1
        /\ tasks[u].pc = "sleeping"

\* C4: a cycle in which fetch_candles, positions or account raised ends
\* with an error result and issues no market order.
C4_FailedCallSkipsSymbol ==
    cyc.failed \cap {"fetch_candles", "positions", "account"} # {}
        => cyc.result = "error" /\ ~cyc.ordered

\* C5: the quantity passed to market_order never exceeds the quantity of
\* the maximum position cap.
C5_QtyWithinCap == cyc.ordered => cyc.qty <= max_position_cap

\* C6: no market order is placed from a risk quantity that is not positive.
C6_NoOrderFromNonPositive == cyc.ordered => cyc.eq * risk_percent_bp > 0

\* C7: a cycle whose signal is opposite to the position held on the symbol
\* closes the position and places no market order.
C7_ConflictCloses == (cyc.sig # "" /\ OppositeSide(cyc)) => (cyc.closed /\ ~cyc.ordered)

\* C8: a cycle emits no directional signal on a last candle for which an
\* earlier cycle already emitted one.
C8_NoRefire == ~cyc.refire

\* C9: right after Engine.start returns, enable_auto is true; right after
\* Engine.stop returns, it is false.
C9_StartStopSetEnabled ==
    /\ reply \in {"started", "running"} => enable_auto
    /\ reply = "stopping" => ~enable_auto

\* C10: cancellation is cooperative: a tick is left only after its last
\* symbol, stop comes between ticks, no tick begins while enable_auto is
\* false, and, unless a start sets enable_auto again, every loop task ends
\* and running becomes false.
C10_CooperativeCancel ==
    /\ [][\A t \in 1..MaxTasks :
            /\ (tasks[t].pc = "tick" /\ tasks'[t].pc # "tick")
                   => tasks[t].idx > Len(symbols)
            /\ (tasks[t].pc # "tick" /\ tasks'[t].pc = "tick") => enable_auto
            /\ (enable_auto /\ ~enable_auto') => tasks[t].pc # "tick"]_vars
    /\ ~enable_auto ~> (enable_auto \/ (Live = {} /\ ~running))

\* stop has just returned while a loop task sleeps.
C10_Witness ==
    /\ reply = "stopping"
    /\ running
    /\ \E t \in 1..MaxTasks : tasks[t].pc = "sleeping"

\* The symbols of a tick at position idx with the results res: one result for
\* each symbol the tick is through with, in the order of the symbols.
OneEach(idx, res) ==
    /\ Len(res) = idx - 1
    /\ \A i \in 1..Len(res) : res[i].symbol = symbols[i]

\* C11: in every tick, of a loop task or of the webhook scan, each symbol the
\* tick is through with has exactly one result whatever the symbols before it
\* came to, so the tick that reaches its end has one result per configured
\* symbol; the cycle of a symbol no adapter claims makes no broker call and
\* its result says so.
C11_OneResultPerSymbol ==
    /\ \A t \in Ticking : OneEach(tasks[t].idx, tasks[t].res)
    /\ wh.pc = "scan" => OneEach(wh.idx, wh.res)
    /\ (cyc.src # "none" /\ broker_for(cyc.sym) = "none") =>
          /\ cyc.result = "nobroker"
          /\ cyc.calls = {}
          /\ ~cyc.ordered
          /\ \A t \in Ticking : tasks[t].res[Len(tasks[t].res)] = Result(cyc)
          /\ wh.pc = "scan" => wh.res[Len(wh.res)] = Result(cyc)

\* A tick whose first symbol failed with an exception and whose second symbol,
\* claimed by no adapter, was still reached and reported.
C11_Witness ==
    \E t \in Ticking :
        tasks[t].res = <<[symbol |-> BTCUSD, result |-> "error"],
                         [symbol |-> XYZ, result |-> "nobroker"]>>

\* The order the text BuyText names: its symbol, side and quantity.
BuySymbol == BTCUSD
BuySide == "buy"
BuyQty == 2 * MinQty

\* C12: the handling of the message `buy <symbol> <qty>` runs no decision
\* cycle but one that places the named order (that symbol, side and
\* quantity), and at its end exactly one market order was placed.
C12_ManualOrder ==
    wh.text = BuyText =>
        /\ cyc.src = "webhook" =>
              /\ cyc.sym = BuySymbol
              /\ cyc.ordered
              /\ cyc.sig = BuySide
              /\ cyc.qty = BuyQty
        /\ wh.idx > Len(symbols) =>
              Cardinality({i \in DOMAIN wh.res : wh.res[i].result = "order"}) = 1

\* C13: the handling of the message `help` makes no broker call and places
\* or closes nothing.
C13_HelpIsInert ==
    wh.text = HelpText => (cyc.calls = {} /\ ~cyc.ordered /\ ~cyc.closed)

\* _broker_for with the adapters asked in the other order.
broker_for_reversed(sym) ==
    IF oanda_instrument_ok(sym) THEN "oanda"
    ELSE IF alpaca_instrument_ok(sym) THEN "alpaca"
    ELSE "none"

\* C14: the adapter _broker_for returns for a symbol does not depend on the
\* order in which the adapters are asked: no symbol is claimed by both, and
\* XYZ, which matches no format, is routed to none.
C14_OrderIndependent ==
    (probe.fn = "_broker_for" /\ probe.done) =>
        /\ probe.broker = broker_for_reversed(probe.symbol)
        /\ ~(alpaca_instrument_ok(probe.symbol) /\ oanda_instrument_ok(probe.symbol))
        /\ probe.symbol = XYZ => probe.broker = "none"

\* The spans and windows of compute_indicators, and the warm-up they make.
EmaFastSpan == 9
EmaSlowSpan == 21
RsiWindow == 14
AtrWindow == 14
WarmUp == Max(Max(EmaFastSpan, EmaSlowSpan), Max(RsiWindow, AtrWindow)) + 1

\* C16: on a frame of fewer than WarmUp (22) rows generate_signal returns ''
\* and the decision cycle on that frame places no order.
C16_ShortSeriesFlat ==
    (probe.fn = "generate_signal" /\ probe.done /\ probe.n < WarmUp) =>
        /\ probe.sig = ""
        /\ ~probe.cycle.ordered
        /\ "market_order" \notin probe.cycle.calls

\* A frame one row short of the warm-up whose last two rows show a bullish
\* crossover under a neutral RSI: only its length keeps the signal back.
C16_Witness ==
    /\ probe.fn = "generate_signal" /\ probe.done
    /\ probe.n = WarmUp - 1
    /\ LET m == market[probe.symbol]
       IN  /\ m.prev.ema_fast = 1 /\ m.prev.ema_slow = 2
           /\ m.last.ema_fast = 3 /\ m.last.ema_slow = 2
           /\ m.last.rsi = 31
    /\ probe.cycle.result = "nosignal"

\* The last two rows hold numbers only.
Defined(m) ==
    /\ NaN \notin {m.prev.ema_fast, m.prev.ema_slow}
    /\ NaN \notin {m.last.ema_fast, m.last.ema_slow, m.last.rsi}

\* The conditions of a buy and of a sell, as the specification states them.
Bullish(m) ==
    /\ m.prev.ema_fast <= m.prev.ema_slow
    /\ m.last.ema_fast > m.last.ema_slow
    /\ m.last.rsi < 70
Bearish(m) ==
    /\ m.prev.ema_fast >= m.prev.ema_slow
    /\ m.last.ema_fast < m.last.ema_slow
    /\ m.last.rsi > 30

\* What the conditions make of a frame whose last two rows are m.
Stated(m) == IF Bullish(m) THEN "buy" ELSE IF Bearish(m) THEN "sell" ELSE ""

\* C17 as stated: on every frame past the warm-up (22 rows or more) whose
\* last two rows are defined, generate_signal returns buy exactly on the
\* bullish condition, sell exactly on the bearish one and '' otherwise, and
\* the two conditions never hold together.
C17_SignalPastWarmUp ==
    (probe.fn = "generate_signal" /\ probe.done /\ probe.n >= WarmUp
        /\ Defined(market[probe.symbol])) =>
        LET m == market[probe.symbol]
        IN  /\ probe.sig = "buy" <=> Bullish(m)
            /\ probe.sig = "sell" <=> Bearish(m)
            /\ probe.sig = "" <=> ~(Bullish(m) \/ Bearish(m))
            /\ ~(Bullish(m) /\ Bearish(m))

\* C17, amended: the same on every frame of at least MinBars (25) rows; on
\* a shorter frame generate_signal returns '' whatever the rows show.
C17_SignalFromMinBars ==
    (probe.fn = "generate_signal" /\ probe.done /\ Defined(market[probe.symbol])) =>
        LET m == market[probe.symbol]
        IN  /\ ~(Bullish(m) /\ Bearish(m))
            /\ probe.n >= MinBars => probe.sig = Stated(m)
            /\ probe.n < MinBars => probe.sig = ""

\* A frame of MinBars rows with a bearish crossover and an RSI just above
\* the oversold threshold: generate_signal returned sell.
C17_Witness ==
    /\ probe.fn = "generate_signal" /\ probe.done
    /\ probe.n = MinBars
    /\ market[probe.symbol].last.rsi = 31
    /\ Bearish(market[probe.symbol])
    /\ probe.sig = "sell"

\* C18: at most one loop task is alive at any time, a second start before
\* the first task has taken a step included.
C18_AtMostOneLoop == Cardinality(Live) <= 1

\* C19: once start has returned, either a stop follows or the scheduler comes
\* to run and keeps running: ticks of the loop recur for ever. A start that
\* follows a stop while the loop sleeps is such a start.
C19_StartKeepsRunning ==
    [](reply \in {"started", "running"} =>
          ([]<>(Ticking # {}) \/ <>(reply = "stopping")))

\* C20: a cycle issues a market order only if its positions() read answered
\* and reported fewer open positions than max_positions.
C20_LimitGatesOrder ==
    cyc.ordered =>
        /\ "positions" \in cyc.calls
        /\ "positions" \notin cyc.failed
        /\ cyc.npos < max_positions

====
